---- MODULE Spec2Model ----
(***************************************************************************)
(* Model of src/windows.rs: the Windows implementation of AutoLaunch.      *)
(* An AutoLaunch value (self) enables, disables and queries a launch       *)
(* registration kept in two registry key paths under one of two roots.     *)
(* The registry is the external, shared state; every registry call of the  *)
(* handlers is one step of a handler, and a handler is its steps run to    *)
(* completion.                                                             *)
(***************************************************************************)
EXTENDS Integers, Sequences, FiniteSets, TLC

\* ------------------------------------------------------------------ bounds
MaxArgs == 1

\* ------------------------------------------------------- program constants
AL_REGKEY == "SOFTWARE\\Microsoft\\Windows\\CurrentVersion\\Run"
TASK_MANAGER_OVERRIDE_REGKEY == "SOFTWARE\\Microsoft\\Windows\\CurrentVersion\\Explorer\\StartupApproved\\Run"
\* variant: the marker the startup manager stores for a disabled entry
DisabledMarkerValue == <<3, 0, 0, 0, 17, 34, 51, 68, 85, 102, 119, 1>>
TASK_MANAGER_OVERRIDE_ENABLED_VALUE == <<2, 0, 0, 0, 0, 0, 0, 0, 0, 0, 0, 0>>
E_FILENOTFOUND == "0x80070002"
CURRENT_USER == "HKEY_CURRENT_USER"
LOCAL_MACHINE == "HKEY_LOCAL_MACHINE"

\* ------------------------------------------------------------ environment
\* an error of the registry other than E_FILENOTFOUND, and "no error"
E_ACCESSDENIED == "0x80070005"
NoFault == ""
InjectedErrors == {E_ACCESSDENIED}

Roots == {CURRENT_USER, LOCAL_MACHINE}
KeyPaths == {AL_REGKEY, TASK_MANAGER_OVERRIDE_REGKEY}
Names == {"MyApp", "Other"}
AppNames == {"MyApp"}
AppPaths == {"/bin/myapp"}
ArgPool == <<"--flag", "-x", "--minimized">>
ArgLists == {SubSeq(ArgPool, 1, n) : n \in 0..MaxArgs}
ForeignCommand == "C:\\old\\setup.exe /run"

\* byte values the startup manager (or anything else) may have stored
ByteSamples ==
  { <<3, 0, 0, 0, 17, 34, 51, 68, 85, 102, 119, 1>>,  \* 12 bytes, tail non-zero
    <<3, 0, 0, 0, 0, 0, 0, 0, 0, 0, 0, 1>>,           \* 12 bytes, only the last byte set
    <<6, 0, 0, 9, 0, 0, 0, 0, 0, 0, 0, 0>>,           \* 12 bytes, only the prefix set
    <<0, 0, 0, 0, 1, 0, 0, 0, 0, 0, 0, 0>>,           \* 12 bytes, first byte of the tail set
    <<1, 0, 0, 0, 0, 0, 0>>,                          \* 7 bytes
    <<0, 0, 0, 0, 0, 0, 0, 0>> }                      \* exactly 8 zero bytes

ForeignOverride == <<3, 0, 0, 0, 9, 9, 9, 9, 9, 9, 9, 9>>
OverrideSamples(name) == IF name \in AppNames THEN ByteSamples ELSE {ForeignOverride}

\* a registry value slot: absent, or present with its data
NoValue == [present |-> FALSE]
Value(d) == [present |-> TRUE, data |-> d]
NoKey == [exists |-> FALSE, values |-> [n \in Names |-> NoValue]]
EmptyKey == [exists |-> TRUE, values |-> [n \in Names |-> NoValue]]

\* results of registry calls and of the handlers
Ok == [ok |-> TRUE, code |-> NoFault]
Err(c) == [ok |-> FALSE, code |-> c]
OkData(d) == [ok |-> TRUE, code |-> NoFault, data |-> d]

VARIABLES
  self,     \* the AutoLaunch value, fixed by new
  store,    \* the registry: root -> key path -> [exists, values]
  last,     \* the operation that ran last: its name, result and registry calls
  prev,     \* the operation before it: its name and whether it succeeded
  pc,       \* thread -> position in its operation (interleaved specification)
  ret,      \* thread -> result of its operation once done
  overlap   \* every registry call of the reader's current is_enabled was made
            \* while the enabler stood between its two writes

vars == <<self, store, last, prev, pc, ret, overlap>>

\* ----------------------------------------------------------- AutoLaunch::new
new(app_name, app_path, args, with_admin) ==
  [app_name |-> app_name, app_path |-> app_path, args |-> args, with_admin |-> with_admin]

root_key(s) == IF s.with_admin THEN LOCAL_MACHINE ELSE CURRENT_USER

\* ------------------------------------------------- windows_registry calls
\* each returns the registry afterwards and the call's result; f is the
\* error the call meets from the environment (NoFault: none)
RegCreate(st, root, key, f) ==
  IF f # NoFault THEN [st |-> st, r |-> Err(f)]
  ELSE [st |-> [st EXCEPT ![root][key].exists = TRUE], r |-> Ok]

RegOpen(st, root, key, f) ==
  IF f # NoFault THEN [st |-> st, r |-> Err(f)]
  ELSE IF ~st[root][key].exists THEN [st |-> st, r |-> Err(E_FILENOTFOUND)]
  ELSE [st |-> st, r |-> Ok]

RegSetValue(st, root, key, name, d, f) ==
  IF f # NoFault THEN [st |-> st, r |-> Err(f)]
  ELSE [st |-> [st EXCEPT ![root][key].values[name] = Value(d)], r |-> Ok]

RegGetValue(st, root, key, name, f) ==
  IF f # NoFault THEN [st |-> st, r |-> Err(f)]
  ELSE IF ~st[root][key].values[name].present THEN [st |-> st, r |-> Err(E_FILENOTFOUND)]
  ELSE [st |-> st, r |-> OkData(st[root][key].values[name].data)]

RegRemoveValue(st, root, key, name, f) ==
  IF f # NoFault THEN [st |-> st, r |-> Err(f)]
  ELSE IF ~st[root][key].values[name].present THEN [st |-> st, r |-> Err(E_FILENOTFOUND)]
  ELSE [st |-> [st EXCEPT ![root][key].values[name] = NoValue], r |-> Ok]

\* ------------------------------------------------------------ pure helpers
RECURSIVE join(_, _)
join(args, sep) ==
  IF Len(args) = 0 THEN ""
  ELSE IF Len(args) = 1 THEN args[1]
  ELSE args[1] \o sep \o join(Tail(args), sep)

\* variant: "{}{}" instead of "{} {}"
format_no_space(s) == s.app_path \o join(s.args, " ")
format(s) == s.app_path \o " " \o join(s.args, " ")

Reverse(b) == [i \in 1..Len(b) |-> b[Len(b) + 1 - i]]
Take(b, n) == SubSeq(b, 1, IF Len(b) < n THEN Len(b) ELSE n)

\* variant: take(8) without rev() looks at the first eight bytes
first_eight_bytes_all_zeros(bytes) ==
  IF Len(bytes) < 8 THEN [ok |-> FALSE, code |-> "Bytes too short"]
  ELSE OkData(\A i \in DOMAIN Take(bytes, 8) : Take(bytes, 8)[i] = 0)

last_eight_bytes_all_zeros(bytes) ==
  IF Len(bytes) < 8 THEN [ok |-> FALSE, code |-> "Bytes too short"]
  ELSE OkData(\A i \in DOMAIN Take(Reverse(bytes), 8) : Take(Reverse(bytes), 8)[i] = 0)

unwrap_or(r, d) == IF r.ok THEN r.data ELSE d

\* ------------------------------------------------------------------ handlers
\* A handler is modelled by its step function: given the registry, the
\* position `at` of the handler and the error f its next registry call meets,
\* it makes that one call and yields the registry afterwards, the next
\* position ("return" when the function returns), the returned result and a
\* record of the call made.
Pending == [ok |-> FALSE, code |-> "pending"]
Call(fn, what, key, r) == [fn |-> fn, call |-> what, key |-> key, code |-> r.code]
Goto(c, at, call) == [st |-> c.st, at |-> at, res |-> Pending, call |-> call]
Return(c, res, call) == [st |-> c.st, at |-> "return", res |-> res, call |-> call]

\* --- enable_with_root_key, one definition per registry call
\* variant: the key path is created anew and the call fails when it exists
enable_create_new(st, s, root, f) ==
  LET c == IF f = NoFault /\ st[root][AL_REGKEY].exists
           THEN [st |-> st, r |-> Err("0x800700B7")]
           ELSE RegCreate(st, root, AL_REGKEY, f)
      k == Call("enable_with_root_key", "create", AL_REGKEY, c.r)
  IN  IF c.r.ok THEN Goto(c, "set_string", k) ELSE Return(c, Err(c.r.code), k)

enable_create(st, s, root, f) ==
  LET c == RegCreate(st, root, AL_REGKEY, f)
      k == Call("enable_with_root_key", "create", AL_REGKEY, c.r)
  IN  IF c.r.ok THEN Goto(c, "set_string", k) ELSE Return(c, Err(c.r.code), k)

enable_set_string(st, s, root, f) ==
  LET c == RegSetValue(st, root, AL_REGKEY, s.app_name, format(s), f)
      k == Call("enable_with_root_key", "set_string", AL_REGKEY, c.r)
  IN  IF c.r.ok THEN Goto(c, "open", k) ELSE Return(c, Err(c.r.code), k)

\* variant: the override key path is created like the registration key path
enable_create_override(st, s, root, f) ==
  LET c == RegCreate(st, root, TASK_MANAGER_OVERRIDE_REGKEY, f)
      k == Call("enable_with_root_key", "open", TASK_MANAGER_OVERRIDE_REGKEY, c.r)
  IN  IF c.r.ok THEN Goto(c, "set_bytes", k)
      ELSE IF c.r.code = E_FILENOTFOUND THEN Return(c, Ok, k)
      ELSE Return(c, Err(c.r.code), k)

\* variant: a failed open of the override key path takes the registration back
enable_open_rollback(st, s, root, f) ==
  LET c == RegOpen(st, root, TASK_MANAGER_OVERRIDE_REGKEY, f)
      k == Call("enable_with_root_key", "open", TASK_MANAGER_OVERRIDE_REGKEY, c.r)
      undone == [st |-> [st EXCEPT ![root][AL_REGKEY].values[s.app_name] = NoValue]]
  IN  IF c.r.ok THEN Goto(c, "set_bytes", k)
      ELSE IF c.r.code = E_FILENOTFOUND THEN Return(c, Ok, k)
      ELSE Return(undone, Err(c.r.code), k)

enable_open(st, s, root, f) ==
  LET c == RegOpen(st, root, TASK_MANAGER_OVERRIDE_REGKEY, f)
      k == Call("enable_with_root_key", "open", TASK_MANAGER_OVERRIDE_REGKEY, c.r)
  IN  IF c.r.ok THEN Goto(c, "set_bytes", k)
      ELSE IF c.r.code = E_FILENOTFOUND THEN Return(c, Ok, k)
      ELSE Return(c, Err(c.r.code), k)

enable_set_bytes(st, s, root, f) ==
  LET c == RegSetValue(st, root, TASK_MANAGER_OVERRIDE_REGKEY, s.app_name,
                       TASK_MANAGER_OVERRIDE_ENABLED_VALUE, f)
      k == Call("enable_with_root_key", "set_bytes", TASK_MANAGER_OVERRIDE_REGKEY, c.r)
  IN  IF c.r.ok THEN Return(c, Ok, k) ELSE Return(c, Err(c.r.code), k)

enable_with_root_key(st, s, root, at, f) ==
  CASE at = "create" -> enable_create(st, s, root, f)
    [] at = "set_string" -> enable_set_string(st, s, root, f)
    [] at = "open" -> enable_open(st, s, root, f)
    [] at = "set_bytes" -> enable_set_bytes(st, s, root, f)

\* --- disable_with_root_key
disable_open(st, s, root, f) ==
  LET c == RegOpen(st, root, AL_REGKEY, f)
      k == Call("disable_with_root_key", "open", AL_REGKEY, c.r)
  IN  IF c.r.ok THEN Goto(c, "remove_value", k)
      ELSE IF c.r.code = E_FILENOTFOUND THEN Return(c, Ok, k)
      ELSE Return(c, Err(c.r.code), k)

\* variant: disable made symmetric to enable, removing the override value too
disable_remove_both(st, s, root, f) ==
  LET c == RegRemoveValue(st, root, AL_REGKEY, s.app_name, f)
      d == RegRemoveValue(c.st, root, TASK_MANAGER_OVERRIDE_REGKEY, s.app_name, NoFault)
      k == Call("disable_with_root_key", "remove_value", AL_REGKEY, c.r)
  IN  IF c.r.ok THEN Return(d, Ok, k) ELSE Return(c, Err(c.r.code), k)

disable_remove_value(st, s, root, f) ==
  LET c == RegRemoveValue(st, root, AL_REGKEY, s.app_name, f)
      k == Call("disable_with_root_key", "remove_value", AL_REGKEY, c.r)
  IN  IF c.r.ok THEN Return(c, Ok, k) ELSE Return(c, Err(c.r.code), k)

disable_with_root_key(st, s, root, at, f) ==
  CASE at = "open" -> disable_open(st, s, root, f)
    [] at = "remove_value" -> disable_remove_value(st, s, root, f)

\* --- is_registered: open(AL_REGKEY).and_then(get_string), then the match
is_registered_open(st, s, root, f) ==
  LET c == RegOpen(st, root, AL_REGKEY, f)
      k == Call("is_registered", "open", AL_REGKEY, c.r)
  IN  IF c.r.ok THEN Goto(c, "registered_get_string", k)
      ELSE IF c.r.code = E_FILENOTFOUND THEN Return(c, OkData(FALSE), k)
      ELSE Return(c, Err(c.r.code), k)

is_registered_get_string(st, s, root, f) ==
  LET c == RegGetValue(st, root, AL_REGKEY, s.app_name, f)
      k == Call("is_registered", "get_string", AL_REGKEY, c.r)
  IN  IF c.r.ok THEN Return(c, OkData(TRUE), k)
      ELSE IF c.r.code = E_FILENOTFOUND THEN Return(c, OkData(FALSE), k)
      ELSE Return(c, Err(c.r.code), k)

is_registered(st, s, root, at, f) ==
  CASE at = "registered_open" -> is_registered_open(st, s, root, f)
    [] at = "registered_get_string" -> is_registered_get_string(st, s, root, f)

\* --- is_task_manager_enabled: open(override).and_then(get_value), the match
is_task_manager_enabled_open(st, s, root, f) ==
  LET c == RegOpen(st, root, TASK_MANAGER_OVERRIDE_REGKEY, f)
      k == Call("is_task_manager_enabled", "open", TASK_MANAGER_OVERRIDE_REGKEY, c.r)
  IN  IF c.r.ok THEN Goto(c, "override_get_value", k)
      ELSE IF c.r.code = E_FILENOTFOUND THEN Return(c, OkData(TRUE), k)
      ELSE Return(c, Err(c.r.code), k)

\* variant: every error of the read counts as "no override"
is_task_manager_enabled_get_value_lenient(st, s, root, f) ==
  LET c == RegGetValue(st, root, TASK_MANAGER_OVERRIDE_REGKEY, s.app_name, f)
      k == Call("is_task_manager_enabled", "get_value", TASK_MANAGER_OVERRIDE_REGKEY, c.r)
  IN  IF c.r.ok
      THEN Return(c, OkData(unwrap_or(last_eight_bytes_all_zeros(c.r.data), TRUE)), k)
      ELSE Return(c, OkData(TRUE), k)

is_task_manager_enabled_get_value(st, s, root, f) ==
  LET c == RegGetValue(st, root, TASK_MANAGER_OVERRIDE_REGKEY, s.app_name, f)
      k == Call("is_task_manager_enabled", "get_value", TASK_MANAGER_OVERRIDE_REGKEY, c.r)
  IN  IF c.r.ok
      THEN Return(c, OkData(unwrap_or(last_eight_bytes_all_zeros(c.r.data), TRUE)), k)
      ELSE IF c.r.code = E_FILENOTFOUND THEN Return(c, OkData(TRUE), k)
      ELSE Return(c, Err(c.r.code), k)

is_task_manager_enabled(st, s, root, at, f) ==
  CASE at = "override_open" -> is_task_manager_enabled_open(st, s, root, f)
    [] at = "override_get_value" -> is_task_manager_enabled_get_value(st, s, root, f)

\* the public operations: the position "done" is the operation's return
Done(x, res) == [x EXCEPT !.at = "done", !.res = res]

enable(st, s, at, f) ==
  LET x == enable_with_root_key(st, s, root_key(s), at, f)
  IN  IF x.at = "return" THEN Done(x, x.res) ELSE x

\* variant: the root is CURRENT_USER whatever with_admin says
disable_current_user(st, s, at, f) ==
  LET x == disable_with_root_key(st, s, CURRENT_USER, at, f)
  IN  IF x.at = "return" THEN Done(x, x.res) ELSE x

disable(st, s, at, f) ==
  LET x == disable_with_root_key(st, s, root_key(s), at, f)
  IN  IF x.at = "return" THEN Done(x, x.res) ELSE x

is_enabled(st, s, at, f) ==
  IF at \in {"registered_open", "registered_get_string"}
  THEN LET x == is_registered(st, s, root_key(s), at, f)
       IN  IF x.at # "return" THEN x
           ELSE IF ~x.res.ok THEN Done(x, x.res)
           ELSE IF ~x.res.data THEN Done(x, OkData(FALSE))
           ELSE [x EXCEPT !.at = "override_open", !.res = Pending]
  ELSE LET y == is_task_manager_enabled(st, s, root_key(s), at, f)
       IN  IF y.at # "return" THEN y
           ELSE IF ~y.res.ok THEN Done(y, y.res)
           ELSE Done(y, OkData(y.res.data))

Ops == {"enable", "disable", "is_enabled"}
Entry(op) ==
  CASE op = "enable" -> "create" [] op = "disable" -> "open" [] op = "is_enabled" -> "registered_open"

Step(op, st, s, at, f) ==
  CASE op = "enable" -> enable(st, s, at, f)
    [] op = "disable" -> disable(st, s, at, f)
    [] op = "is_enabled" -> is_enabled(st, s, at, f)

\* a whole call of an operation: its steps in order, the registry call at
\* position plan.at (if reached) meeting the error plan.code
NoPlan == [at |-> "none", code |-> NoFault]
Plans(op) ==
  {NoPlan} \cup
  [at : CASE op = "enable" -> {"create", "set_string", "open", "set_bytes"}
          [] op = "disable" -> {"open", "remove_value"}
          [] op = "is_enabled" -> {"registered_open", "registered_get_string",
                                   "override_open", "override_get_value"},
   code : InjectedErrors]

RECURSIVE Run(_, _, _, _, _, _)
Run(op, st, s, at, plan, calls) ==
  LET x == Step(op, st, s, at, IF plan.at = at THEN plan.code ELSE NoFault)
  IN  IF x.at = "done" THEN [st |-> x.st, res |-> x.res, calls |-> Append(calls, x.call)]
      ELSE Run(op, x.st, s, x.at, plan, Append(calls, x.call))

Invoke(op, st, s, plan) == Run(op, st, s, Entry(op), plan, <<>>)

\* ------------------------------------------------------------- state machine
Entries == {new(n, p, a, w) : n \in AppNames, p \in AppPaths, a \in ArgLists, w \in BOOLEAN}
Threads == {"enabler", "reader"}
ThreadOp(t) == IF t = "enabler" THEN "enable" ELSE "is_enabled"

NoLast == [op |-> "none", res |-> Ok, calls |-> <<>>]

Init ==
  /\ self \in Entries
  /\ store = [r \in Roots |-> [k \in KeyPaths |-> NoKey]]
  /\ last = NoLast
  /\ prev = [op |-> "none", ok |-> TRUE]
  /\ pc = [t \in Threads |-> "idle"]
  /\ ret = [t \in Threads |-> Pending]
  /\ overlap = FALSE

\* --- the environment: everything else that writes the registry
\* the host creates a key path (Explorer creates StartupApproved\Run, setup
\* creates Run)
HostCreateKey(root, key) ==
  /\ ~store[root][key].exists
  /\ store' = [store EXCEPT ![root][key].exists = TRUE]

\* the startup manager (or anyone) stores an override value for a name
StartupManagerWrite(root, name, bytes) ==
  /\ store[root][TASK_MANAGER_OVERRIDE_REGKEY].values[name] # Value(bytes)
  /\ store' = [store EXCEPT ![root][TASK_MANAGER_OVERRIDE_REGKEY] =
                 [exists |-> TRUE, values |-> [@.values EXCEPT ![name] = Value(bytes)]]]

\* another program registers a command under a name
InstallerWrite(root, name, command) ==
  /\ store[root][AL_REGKEY].values[name] # Value(command)
  /\ store' = [store EXCEPT ![root][AL_REGKEY] =
                 [exists |-> TRUE, values |-> [@.values EXCEPT ![name] = Value(command)]]]

\* the environment is followed in the root the AutoLaunch value addresses
Environment ==
  \E root \in {root_key(self)} :
    \/ \E key \in KeyPaths : HostCreateKey(root, key)
    \/ \E name \in Names : \E bytes \in OverrideSamples(name) : StartupManagerWrite(root, name, bytes)
    \/ \E name \in Names : InstallerWrite(root, name, ForeignCommand)

\* --- one caller, one operation at a time: each action is a whole call
Called(op, x) == [op |-> op, res |-> x.res, calls |-> x.calls]
Before == [op |-> last.op, ok |-> last.res.ok]

Enable ==
  \E plan \in Plans("enable") :
    LET x == Invoke("enable", store, self, plan)
    IN  /\ store' = x.st
        /\ last' = Called("enable", x)
        /\ prev' = Before
        /\ UNCHANGED <<self, pc, ret, overlap>>

Disable ==
  \E plan \in Plans("disable") :
    LET x == Invoke("disable", store, self, plan)
    IN  /\ store' = x.st
        /\ last' = Called("disable", x)
        /\ prev' = Before
        /\ UNCHANGED <<self, pc, ret, overlap>>

IsEnabled ==
  \E plan \in Plans("is_enabled") :
    LET x == Invoke("is_enabled", store, self, plan)
    IN  /\ store' = x.st
        /\ last' = Called("is_enabled", x)
        /\ prev' = Before
        /\ UNCHANGED <<self, pc, ret, overlap>>

External ==
  /\ Environment
  /\ last' = [NoLast EXCEPT !.op = "external"]
  /\ prev' = Before
  /\ UNCHANGED <<self, pc, ret, overlap>>

Next == Enable \/ Disable \/ IsEnabled \/ External
Spec == Init /\ [][Next]_vars

\* --- callers in different threads or processes: each action is one registry
\* call of one thread; the enabler calls enable, the reader is_enabled
Begin(t) ==
  /\ pc[t] \in {"idle", "done"}
  /\ pc' = [pc EXCEPT ![t] = Entry(ThreadOp(t))]
  /\ ret' = [ret EXCEPT ![t] = Pending]
  /\ overlap' = IF t = "reader" THEN TRUE ELSE overlap
  /\ UNCHANGED <<self, store, last, prev>>

ThreadStep(t) ==
  /\ pc[t] \notin {"idle", "done"}
  /\ \E f \in {NoFault} \cup InjectedErrors :
       LET x == Step(ThreadOp(t), store, self, pc[t], f)
       IN  /\ store' = x.st
           /\ pc' = [pc EXCEPT ![t] = x.at]
           /\ ret' = [ret EXCEPT ![t] = x.res]
  /\ overlap' = IF t = "reader" THEN overlap /\ pc["enabler"] \in {"open", "set_bytes"}
                ELSE overlap
  /\ UNCHANGED <<self, last, prev>>

EnvStep == Environment /\ UNCHANGED <<self, last, prev, pc, ret, overlap>>

NextConc == (\E t \in Threads : Begin(t)) \/ (\E t \in Threads : ThreadStep(t)) \/ EnvStep
SpecConc == Init /\ [][NextConc]_vars

\* ===================================================================== claims
\* what the claims speak about, read off the registry directly
Root == IF self.with_admin THEN "HKEY_LOCAL_MACHINE" ELSE "HKEY_CURRENT_USER"
OtherRoot == IF self.with_admin THEN "HKEY_CURRENT_USER" ELSE "HKEY_LOCAL_MACHINE"
RunKey == store[Root][AL_REGKEY]
OverrideKey == store[Root][TASK_MANAGER_OVERRIDE_REGKEY]
RunValue == RunKey.values[self.app_name]
OverrideValue == OverrideKey.values[self.app_name]

Registered == RunKey.exists /\ RunValue.present
TailNonZero(b) == Len(b) >= 8 /\ \E i \in (Len(b) - 7)..Len(b) : b[i] # 0
Permits ==
  \/ ~OverrideKey.exists
  \/ ~OverrideValue.present
  \/ Len(OverrideValue.data) < 8
  \/ \A i \in (Len(OverrideValue.data) - 7)..Len(OverrideValue.data) : OverrideValue.data[i] = 0

\* no registry call of the operation met an error of the environment
NoErrorMet(calls) == \A i \in DOMAIN calls : calls[i].code \notin InjectedErrors
Returned(op) == last.op = op /\ last.res.ok
After(op) == prev.op = op /\ prev.ok

\* C1: an is_enabled run right after a successful enable, with no writer in
\* between and no registry error, returns true
C1_EnableThenIsEnabled ==
  (last.op = "is_enabled" /\ After("enable") /\ NoErrorMet(last.calls))
    => (last.res.ok /\ last.res.data = TRUE)

C1_Witness ==
  /\ last.op = "is_enabled" /\ After("enable") /\ NoErrorMet(last.calls)
  /\ last.res.ok /\ last.res.data
  /\ OverrideKey.exists /\ OverrideValue = Value(TASK_MANAGER_OVERRIDE_ENABLED_VALUE)

\* C2: without registry errors is_enabled returns true exactly when the
\* registration value exists and the override store permits (key path missing,
\* value missing, value shorter than 8 bytes, or last 8 bytes all zero)
C2_IsEnabledTable ==
  (last.op = "is_enabled" /\ NoErrorMet(last.calls))
    => (last.res.ok /\ (last.res.data <=> (Registered /\ Permits)))

C2_Witness ==
  /\ last.op = "is_enabled" /\ NoErrorMet(last.calls)
  /\ Registered /\ OverrideValue.present /\ TailNonZero(OverrideValue.data)
  /\ last.res.ok /\ last.res.data = FALSE

\* C3: disable on an entry that is not registered (no registration key path,
\* or a key path without a value of that name) succeeds and changes nothing
C3_DisableUnregisteredSucceeds ==
  [][(~Registered /\ last'.op = "disable" /\ NoErrorMet(last'.calls))
       => (last'.res.ok /\ store' = store)]_vars

\* C4: after a successful disable the registration value of the entry is gone
\* under its root, values of other names are as before, and an is_enabled
\* that follows returns false
C4_DisableUnregisters ==
  /\ [](Returned("disable") => ~Registered)
  /\ []((last.op = "is_enabled" /\ After("disable") /\ NoErrorMet(last.calls))
          => (last.res.ok /\ last.res.data = FALSE))
  /\ [][(last'.op = "disable" /\ last'.res.ok)
          => \A n \in Names \ {self.app_name} :
               store'[Root][AL_REGKEY].values[n] = store[Root][AL_REGKEY].values[n]]_vars

C4_Witness ==
  /\ Returned("disable") /\ After("enable")
  /\ RunKey.exists /\ ~RunValue.present /\ RunKey.values["Other"].present
  /\ OverrideValue.present

\* C5: disable makes no registry call on the override key path and leaves
\* the override store as it was, whatever disable returns
C5_DisableLeavesOverride ==
  /\ [](last.op = "disable" => \A i \in DOMAIN last.calls : last.calls[i].key = AL_REGKEY)
  /\ [][last'.op = "disable"
          => \A r \in Roots : store'[r][TASK_MANAGER_OVERRIDE_REGKEY]
                                = store[r][TASK_MANAGER_OVERRIDE_REGKEY]]_vars

C5_Witness ==
  /\ Returned("disable") /\ After("enable")
  /\ OverrideValue = Value(<<2, 0, 0, 0, 0, 0, 0, 0, 0, 0, 0, 0>>)

\* C6: with the override key path absent, enable creates the registration
\* key path, writes the value, succeeds, and leaves the override key path
\* absent; an is_enabled that follows returns true
C6_EnableWithoutOverrideKey ==
  /\ [][(~OverrideKey.exists /\ last'.op = "enable" /\ NoErrorMet(last'.calls))
          => /\ last'.res.ok
             /\ store'[Root][AL_REGKEY].exists
             /\ store'[Root][AL_REGKEY].values[self.app_name].present
             /\ ~store'[Root][TASK_MANAGER_OVERRIDE_REGKEY].exists]_vars
  /\ []((last.op = "is_enabled" /\ After("enable") /\ ~OverrideKey.exists
           /\ NoErrorMet(last.calls))
          => (last.res.ok /\ last.res.data = TRUE))

C6_Witness ==
  /\ last.op = "is_enabled" /\ After("enable") /\ NoErrorMet(last.calls)
  /\ ~OverrideKey.exists /\ Registered
  /\ last.res.ok /\ last.res.data

\* C7: after a successful enable the registration value is the path, one
\* space, and the arguments separated by single spaces in order; the
\* override value, when its key path exists, is 02 followed by eleven 00
RECURSIVE SpaceSeparated(_)
SpaceSeparated(a) ==
  IF Len(a) = 0 THEN ""
  ELSE IF Len(a) = 1 THEN a[1]
  ELSE SpaceSeparated(SubSeq(a, 1, Len(a) - 1)) \o " " \o a[Len(a)]

C8_EnableIdempotent ==
  [][(Returned("enable") /\ last'.op = "enable" /\ NoErrorMet(last'.calls))
       => (last'.res.ok /\ store' = store)]_vars

C8_Witness ==
  /\ Returned("enable") /\ After("enable")
  /\ Registered /\ OverrideKey.exists /\ OverrideValue.present

\* C9: not-found is absorbed only when enable opens the override key path,
\* when disable opens the registration key path and in the two sub-checks of
\* is_enabled; any other error of a registry call ends the operation at once
\* with that error, and no call is made twice
Absorbed(c) ==
  /\ c.code = E_FILENOTFOUND
  /\ \/ c.fn = "enable_with_root_key" /\ c.call = "open"
     \/ c.fn = "disable_with_root_key" /\ c.call = "open"
     \/ c.fn \in {"is_registered", "is_task_manager_enabled"}

C9_ErrorsSurface ==
  last.op \in Ops =>
    /\ Len(last.calls) > 0
    /\ \A i \in DOMAIN last.calls :
         (last.calls[i].code # NoFault /\ ~Absorbed(last.calls[i]))
           => /\ i = Len(last.calls)
              /\ ~last.res.ok
              /\ last.res.code = last.calls[i].code
    /\ \A i \in DOMAIN last.calls : Absorbed(last.calls[i]) => last.res.ok
    /\ ~last.res.ok => last.res.code = last.calls[Len(last.calls)].code
    /\ \A i, j \in DOMAIN last.calls :
         (last.calls[i].fn = last.calls[j].fn /\ last.calls[i].call = last.calls[j].call)
           => i = j

C9_Witness ==
  /\ last.op = "is_enabled" /\ ~last.res.ok /\ last.res.code = E_ACCESSDENIED
  /\ Len(last.calls) = 4
  /\ last.calls[4].fn = "is_task_manager_enabled" /\ last.calls[4].code = E_ACCESSDENIED

\* C10: enable writes the two stores in separate steps: the registration
\* write leaves the override store as it is, and a failure of the later
\* override step (never a not-found) is returned with the registry left as
\* it was, the registration written before included; an is_enabled running
\* between the two writes sees the registration
C10_EnableNotAtomic ==
  /\ [][(pc["enabler"] = "set_string" /\ pc'["enabler"] = "open")
          => /\ store'[Root][AL_REGKEY].values[self.app_name]
                  = Value(self.app_path \o " " \o SpaceSeparated(self.args))
             /\ \A r \in Roots : store'[r][TASK_MANAGER_OVERRIDE_REGKEY]
                                   = store[r][TASK_MANAGER_OVERRIDE_REGKEY]]_vars
  /\ [][(pc["enabler"] \in {"open", "set_bytes"} /\ pc'["enabler"] = "done"
           /\ ~ret'["enabler"].ok)
          => (ret'["enabler"].code \in InjectedErrors /\ store' = store)]_vars
  /\ [](pc["enabler"] \in {"open", "set_bytes"} => Registered)

\* a reader whose whole is_enabled ran between the two writes returned false
\* on the new registration and a stale override; the enable then failed
C10_Witness ==
  /\ pc["reader"] = "done" /\ overlap
  /\ ret["reader"].ok /\ ret["reader"].data = FALSE
  /\ pc["enabler"] = "done" /\ ~ret["enabler"].ok
  /\ RunValue = Value(format(self))
  /\ OverrideValue.present /\ TailNonZero(OverrideValue.data)

====
